---- MODULE Spec2Model ----
(***************************************************************************)
(* The notebook repair pipeline of validate_notebook.py: the strict        *)
(* validator validate_notebook_structure, the repair agent adapter         *)
(* fix_with_gemini and the bounded repair loop of main.                    *)
(*                                                                         *)
(* A text (file content, agent response) is a sequence of tokens.  Every   *)
(* token stands for a fixed run of characters, chosen so that the string   *)
(* operations of the source (strip, startswith, endswith, slicing by 7 and *)
(* by 3 characters) cut texts at token borders only:                       *)
(*   WS    one whitespace character                                        *)
(*   FENCE the three backticks of a code fence                             *)
(*   TAG   the four letters json (FENCE followed by TAG is the 7-character *)
(*         opening marker)                                                 *)
(*   LB RB the braces of a JSON object                                     *)
(*   CELLS the members that make the object a well-formed v4 notebook      *)
(*   BAD   a byte that is not valid UTF-8 (files only)                     *)
(***************************************************************************)
EXTENDS Integers, Sequences, FiniteSets, TLC

MaxRespLen == 4
MaxFileLen == 3
MaxFaults == 1
MaxBodyLen == 2

max_retries == 5

WS == "ws"
FENCE == "fence"
TAG == "json"
LB == "{"
RB == "}"
CELLS == "cells"
BAD == "0xff"

ResponseTokens == {WS, FENCE, TAG, LB, RB, CELLS}
FileTokens == {LB, RB, CELLS, BAD}

SeqsUpTo(S, n) == UNION {[1..k -> S] : k \in 0..n}

Responses == SeqsUpTo(ResponseTokens, MaxRespLen)
InitialContents == SeqsUpTo(FileTokens, MaxFileLen)

(***************************************************************************)
(* String operations of Python used by the source.                         *)
(***************************************************************************)
RECURSIVE lstrip(_)
lstrip(t) == IF t # <<>> /\ Head(t) = WS THEN lstrip(Tail(t)) ELSE t

RECURSIVE rstrip(_)
rstrip(t) ==
    IF t # <<>> /\ t[Len(t)] = WS THEN rstrip(SubSeq(t, 1, Len(t) - 1)) ELSE t

strip(t) == rstrip(lstrip(t))

startswith(t, p) == Len(t) >= Len(p) /\ SubSeq(t, 1, Len(p)) = p

endswith(t, p) == Len(t) >= Len(p) /\ SubSeq(t, Len(t) - Len(p) + 1, Len(t)) = p

DropFirst(t, n) == SubSeq(t, n + 1, Len(t))

DropLast(t, n) == SubSeq(t, 1, Len(t) - n)

(***************************************************************************)
(* fix_with_gemini, lines 64-73: the clean-up of the agent's response.     *)
(***************************************************************************)
cleaned_text_keeps_tail(response_text) ==
    LET a == strip(response_text)
        b == IF startswith(a, <<FENCE, TAG>>) THEN DropFirst(a, 2) ELSE a
        c == IF startswith(b, <<FENCE>>) THEN DropFirst(b, 1) ELSE b
    IN  strip(c)

cleaned_text(response_text) ==
    LET a == strip(response_text)
        b == IF startswith(a, <<FENCE, TAG>>) THEN DropFirst(a, 2) ELSE a
        c == IF startswith(b, <<FENCE>>) THEN DropFirst(b, 1) ELSE b
        d == IF endswith(c, <<FENCE>>) THEN DropLast(c, 1) ELSE c
    IN  strip(d)

(***************************************************************************)
(* json.loads and json.dump(obj, f, indent=1).  Two JSON values exist in   *)
(* the model: an object that lacks the notebook members ("object", which   *)
(* the validator rejects) and a well-formed notebook ("notebook").         *)
(* Whitespace between JSON tokens is insignificant                         *)
(* to the parser; the writer puts one whitespace run after the opening     *)
(* brace and one before the closing brace of a non-empty object, and none  *)
(* into an empty object.                                                   *)
(***************************************************************************)
NoObject == "none"

IsNotWS(x) == x # WS

json_loads(t) ==
    LET u == SelectSeq(t, IsNotWS)
    IN  IF u = <<LB, RB>> THEN [ok |-> TRUE, obj |-> "object"]
        ELSE IF u = <<LB, CELLS, RB>> THEN [ok |-> TRUE, obj |-> "notebook"]
        ELSE [ok |-> FALSE, obj |-> NoObject]

json_dump(obj) ==
    IF obj = "notebook" THEN <<LB, WS, CELLS, WS, RB>> ELSE <<LB, RB>>

(***************************************************************************)
(* The text reaches the file in the blocks the buffered writer flushes: a  *)
(* short text in one block, a longer one in two.                           *)
(***************************************************************************)
flushes(text) ==
    IF Len(text) <= 2 THEN <<text>>
    ELSE <<SubSeq(text, 1, 2), SubSeq(text, 3, Len(text))>>

(***************************************************************************)
(* Reading the file as text.  decode_strict is open(path, 'r',             *)
(* encoding='utf-8'), which raises on a BAD byte; decode_ignore is         *)
(* open(path, 'r', errors='ignore'), which drops it.                       *)
(***************************************************************************)
IsNotBad(x) == x # BAD

HasBad(content) == \E i \in 1..Len(content) : content[i] = BAD

decode_ignore(content) == SelectSeq(content, IsNotBad)

(***************************************************************************)
(* validate_notebook_structure, lines 10-26.  readerError is the class of  *)
(* the exception nbformat.read raises for a text that is not JSON: the     *)
(* reader of nbformat raises NotJSONError, a ValueError that is not a      *)
(* json.JSONDecodeError, so it falls to the last handler; a reader that    *)
(* lets json's own error through is caught by the first one.               *)
(***************************************************************************)
ReaderErrors == {"NotJSONError", "JSONDecodeError"}

VALID_MSG == "Valid nbformat v4"
DECODE_MSG == "Invalid JSON"
SCHEMA_MSG == "nbformat Validation Error"
UNEXPECTED_MSG == "Unexpected Error"

validate_notebook_structure(canRead, content, readerError) ==
    IF ~canRead THEN [is_valid |-> FALSE, msg |-> UNEXPECTED_MSG]
    ELSE IF HasBad(content) THEN [is_valid |-> FALSE, msg |-> UNEXPECTED_MSG]
    ELSE IF ~json_loads(content).ok THEN
        IF readerError = "JSONDecodeError"
        THEN [is_valid |-> FALSE, msg |-> DECODE_MSG]
        ELSE [is_valid |-> FALSE, msg |-> UNEXPECTED_MSG]
    ELSE IF json_loads(content).obj = "notebook"
        THEN [is_valid |-> TRUE, msg |-> VALID_MSG]
        ELSE [is_valid |-> FALSE, msg |-> SCHEMA_MSG]

NoVerdict == [is_valid |-> FALSE, msg |-> "none"]

(***************************************************************************)
(* State.  The first group is the state of the program and of the file;    *)
(* the second group records what has happened so far.                      *)
(***************************************************************************)
VARIABLES
    pc,          \* position of main
    api_key,     \* os.environ.get("GEMINI_API_KEY")
    readable,    \* the file at notebook_path can be opened for reading
    disk,        \* content of the file at notebook_path
    attempt,     \* loop variable of main
    verdict,     \* (is_valid, msg) of the validation of this cycle
    json_obj,    \* the parsed fix of this cycle
    pending,     \* blocks of the serialization not yet written
    exitCode,    \* exit status of the process, NoExit while it runs
    disk0,       \* content of the file when the process started
    validated,   \* text the validator read in this cycle
    prompt,      \* content and error_msg given to the agent call of this cycle
    outcome,     \* how the repair of this cycle ended
    parsed,      \* whether json.loads accepted the fix of this cycle
    validations, \* validations run (line 99)
    invalids,    \* validations that returned is_valid = False
    fixCalls,    \* calls of fix_with_gemini (line 112)
    agentCalls,  \* calls of the generative service (line 62)
    reads,       \* opens of the file for reading (lines 16, 36, 40)
    writes,      \* opens of the file for writing (line 117)
    persisted,   \* writes completed (line 119)
    notJson,     \* repairs that ended at line 121
    pauses,      \* executions of time.sleep (line 125)
    faults,      \* failures of the file system so far
    response,    \* a response of the service, for the clean-up on its own
    cleaned      \* what the clean-up of lines 64-73 returns for it

vars == <<pc, api_key, readable, disk, attempt, verdict, json_obj, pending,
          exitCode, disk0, validated, prompt, outcome, validations,
          agentCalls, reads, writes, persisted, notJson, pauses, faults,
          parsed, invalids, fixCalls, response, cleaned>>

NoValue == "None"
NoExit == -1
NoPrompt == [content |-> <<>>, error_msg |-> "none"]
NoResponse ==
    [before |-> <<>>, lead |-> <<>>, body |-> <<>>, trail |-> <<>>,
     after |-> <<>>]

Credentials == {NoValue, "", "key"}

ExceptionClasses == {"JSONDecodeError", "OSError", "AgentError"}

Terminal == {"no_credential", "done_success", "done_failure", "loop_end",
             "uncaught", "crashed"}

Init ==
    /\ pc = "start"
    /\ api_key \in Credentials
    /\ readable \in BOOLEAN
    /\ disk \in (IF readable THEN InitialContents ELSE {<<>>})
    /\ attempt = 1
    /\ verdict = NoVerdict
    /\ json_obj = NoObject
    /\ pending = <<>>
    /\ exitCode = NoExit
    /\ disk0 = disk
    /\ validated = <<>>
    /\ prompt = NoPrompt
    /\ outcome = "none"
    /\ parsed = "none"
    /\ validations = 0
    /\ invalids = 0
    /\ fixCalls = 0
    /\ agentCalls = 0
    /\ reads = 0
    /\ writes = 0
    /\ persisted = 0
    /\ notJson = 0
    /\ pauses = 0
    /\ faults = 0
    /\ response = NoResponse
    /\ cleaned = <<>>

(***************************************************************************)
(* main, lines 85-94.                                                      *)
(***************************************************************************)
CredentialIsNone(key) == key = NoValue

CredentialMissing(key) == key = NoValue \/ key = ""

Start ==
    /\ pc = "start"
    /\ IF CredentialMissing(api_key)
       THEN pc' = "no_credential" /\ exitCode' = 1
       ELSE pc' = "check" /\ exitCode' = exitCode
    /\ UNCHANGED <<fixCalls, response, cleaned, parsed, invalids, faults,
                   api_key, readable, disk, attempt, verdict, json_obj,
                   pending, disk0, validated, prompt, outcome, validations,
                   agentCalls, reads, writes, persisted, notJson, pauses>>

(***************************************************************************)
(* main, lines 96-108: one validation.  The validator opens the path and   *)
(* reads the file again in every cycle (line 16).                          *)
(***************************************************************************)
read_original == disk0

read_path == disk

ExhaustedEarly(a) == a = max_retries - 1

ExhaustedLate(a) == a = max_retries + 1

Exhausted(a) == a = max_retries

AfterVerdictNoBreak(v, a) ==
    IF Exhausted(a) THEN (IF v.is_valid THEN "done_success" ELSE "done_failure")
    ELSE "repair"

AfterVerdictAbortsUnexpected(v, a) ==
    IF v.is_valid THEN "done_success"
    ELSE IF Exhausted(a) \/ v.msg = UNEXPECTED_MSG THEN "done_failure"
    ELSE "repair"

AfterVerdictFallsThrough(v, a) ==
    IF v.is_valid \/ Exhausted(a) THEN "done_success" ELSE "repair"

AfterVerdictRepairFirst(v, a) ==
    IF v.is_valid THEN "done_success" ELSE "repair"

AfterVerdict(v, a) ==
    IF v.is_valid THEN "done_success"
    ELSE IF Exhausted(a) THEN "done_failure"
    ELSE "repair"

ExitCodeAt(position) ==
    IF position = "done_success" THEN 0
    ELSE IF position = "done_failure" THEN 1
    ELSE NoExit

Check ==
    /\ pc = "check"
    /\ \E e \in ReaderErrors :
         LET v == validate_notebook_structure(readable, read_path, e)
         IN  /\ verdict' = v
             /\ invalids' = IF v.is_valid THEN invalids ELSE invalids + 1
             /\ pc' = AfterVerdict(v, attempt)
             /\ exitCode' = ExitCodeAt(AfterVerdict(v, attempt))
    /\ validated' = read_path
    /\ prompt' = NoPrompt
    /\ parsed' = "none"
    /\ outcome' = "none"
    /\ validations' = validations + 1
    /\ reads' = reads + 1
    /\ UNCHANGED <<fixCalls, response, cleaned, faults, api_key, readable,
                   disk, attempt, json_obj, pending, disk0, agentCalls,
                   writes, persisted, notJson, pauses>>

(***************************************************************************)
(* The for statement of line 96 and the handlers of lines 120-125.         *)
(* NextIteration is the step of range(1, max_retries + 1); Raised(exc,     *)
(* inner) is what main does with an exception of class exc raised inside   *)
(* the inner try (inner) or between the two try statements.                *)
(***************************************************************************)
NextIterationSkips ==
    IF attempt < max_retries
    THEN attempt' = attempt + 2 /\ pc' = "check" /\ exitCode' = exitCode
    ELSE attempt' = attempt /\ pc' = "loop_end" /\ exitCode' = 0

NextIteration ==
    IF attempt < max_retries
    THEN attempt' = attempt + 1 /\ pc' = "check" /\ exitCode' = exitCode
    ELSE attempt' = attempt /\ pc' = "loop_end" /\ exitCode' = 0

InnerCatches(exc) == exc = "JSONDecodeError"

CatchesAgentErrorOnly(exc) == exc = "AgentError"

CatchesOSErrorOnly(exc) == exc = "OSError"

OuterCatches(exc) == exc \in ExceptionClasses

Raised(exc, inner) ==
    IF inner /\ InnerCatches(exc)
    THEN pauses' = pauses /\ NextIteration
    ELSE IF OuterCatches(exc)
         THEN pauses' = pauses + 1 /\ NextIteration
         ELSE pauses' = pauses /\ attempt' = attempt /\ pc' = "uncaught"
              /\ exitCode' = 1

(***************************************************************************)
(* main, lines 110-116 with fix_with_gemini, lines 33-73.                  *)
(***************************************************************************)
ParsedFixes == {json_loads(cleaned_text(r)) : r \in Responses}

prompt_original == IF HasBad(disk0) THEN decode_ignore(disk0) ELSE disk0

prompt_content == IF HasBad(disk) THEN decode_ignore(disk) ELSE disk

prompt_reads == IF HasBad(disk) THEN 2 ELSE 1

LoadedUnchecked(fix) == TRUE

Loaded(fix) == fix.ok

RepairReadFails ==
    /\ pc = "repair"
    /\ fixCalls' = fixCalls + 1
    /\ ~readable
    /\ reads' = reads + 2
    /\ outcome' = "raised"
    /\ Raised("OSError", FALSE)
    /\ UNCHANGED <<response, cleaned, parsed, invalids, faults, validated,
                   api_key, readable, disk, verdict, json_obj, pending,
                   disk0, prompt, validations, agentCalls, writes, persisted,
                   notJson>>

RepairAgentRaises ==
    /\ pc = "repair"
    /\ fixCalls' = fixCalls + 1
    /\ readable
    /\ reads' = reads + prompt_reads
    /\ prompt' = [content |-> prompt_content, error_msg |-> verdict.msg]
    /\ agentCalls' = agentCalls + 1
    /\ outcome' = "raised"
    /\ Raised("AgentError", FALSE)
    /\ UNCHANGED <<response, cleaned, parsed, invalids, faults, validated,
                   api_key, readable, disk, verdict, json_obj, pending,
                   disk0, validations, writes, persisted, notJson>>

RepairAgentReturns ==
    /\ pc = "repair"
    /\ fixCalls' = fixCalls + 1
    /\ readable
    /\ reads' = reads + prompt_reads
    /\ prompt' = [content |-> prompt_content, error_msg |-> verdict.msg]
    /\ agentCalls' = agentCalls + 1
    /\ \E fix \in ParsedFixes :
         /\ parsed' = IF fix.ok THEN "ok" ELSE "error"
         /\ IF Loaded(fix)
            THEN /\ json_obj' = fix.obj
                 /\ pc' = "open"
                 /\ UNCHANGED <<attempt, exitCode, outcome, notJson, pauses>>
            ELSE /\ json_obj' = json_obj
                 /\ outcome' = "not_json"
                 /\ notJson' = notJson + 1
                 /\ Raised("JSONDecodeError", TRUE)
    /\ UNCHANGED <<response, cleaned, invalids, faults, validated, api_key,
                   readable, disk, verdict, pending, disk0, validations,
                   writes, persisted>>

Repair == RepairReadFails \/ RepairAgentRaises \/ RepairAgentReturns

(***************************************************************************)
(* main, lines 117-119: open(path, 'w') truncates the file, json.dump      *)
(* writes the serialization block by block, leaving the with statement     *)
(* closes the file.                                                        *)
(***************************************************************************)
OpenWrite ==
    /\ pc = "open"
    /\ disk' = <<>>
    /\ pending' = flushes(json_dump(json_obj))
    /\ writes' = writes + 1
    /\ pc' = "dump"
    /\ UNCHANGED <<fixCalls, response, cleaned, parsed, invalids, faults,
                   api_key, readable, attempt, verdict, json_obj, exitCode,
                   disk0, validated, prompt, outcome, validations,
                   agentCalls, reads, persisted, notJson, pauses>>

Dump ==
    /\ pc = "dump"
    /\ pending # <<>>
    /\ disk' = disk \o Head(pending)
    /\ pending' = Tail(pending)
    /\ UNCHANGED <<fixCalls, response, cleaned, parsed, invalids, faults, pc,
                   api_key, readable, attempt, verdict, json_obj, exitCode,
                   disk0, validated, prompt, outcome, validations,
                   agentCalls, reads, writes, persisted, notJson, pauses>>

Close ==
    /\ pc = "dump"
    /\ pending = <<>>
    /\ outcome' = "persisted"
    /\ persisted' = persisted + 1
    /\ NextIteration
    /\ UNCHANGED <<fixCalls, response, cleaned, parsed, invalids, faults,
                   api_key, readable, disk, verdict, json_obj, pending,
                   disk0, validated, prompt, validations, agentCalls, reads,
                   writes, notJson, pauses>>

Next == Start \/ Check \/ Repair \/ OpenWrite \/ Dump \/ Close

Spec == Init /\ [][Next]_vars

(***************************************************************************)
(* The same program in an environment where the file system can fail and   *)
(* the process can be killed.  An OSError of open or of a write is raised  *)
(* inside the inner try of main; a kill during the write step stops the    *)
(* process where it is.  At most MaxFaults file system failures happen in  *)
(* one run.                                                                *)
(***************************************************************************)
OpenFails ==
    /\ pc = "open"
    /\ faults < MaxFaults
    /\ faults' = faults + 1
    /\ writes' = writes + 1
    /\ outcome' = "write_failed"
    /\ Raised("OSError", TRUE)
    /\ UNCHANGED <<fixCalls, response, cleaned, parsed, invalids, api_key,
                   readable, disk, verdict, json_obj, pending, disk0,
                   validated, prompt, validations, agentCalls, reads,
                   persisted, notJson>>

DumpFails ==
    /\ pc = "dump"
    /\ faults < MaxFaults
    /\ faults' = faults + 1
    /\ outcome' = "write_failed"
    /\ Raised("OSError", TRUE)
    /\ UNCHANGED <<fixCalls, response, cleaned, parsed, invalids, api_key,
                   readable, disk, verdict, json_obj, pending, disk0,
                   validated, prompt, validations, agentCalls, reads, writes,
                   persisted, notJson>>

Crash ==
    /\ pc = "dump"
    /\ pc' = "crashed"
    /\ UNCHANGED <<fixCalls, response, cleaned, parsed, invalids, faults,
                   api_key, readable, disk, attempt, verdict, json_obj,
                   pending, exitCode, disk0, validated, prompt, outcome,
                   validations, agentCalls, reads, writes, persisted,
                   notJson, pauses>>

NextFault == Next \/ OpenFails \/ DumpFails \/ Crash

SpecFault == Init /\ [][NextFault]_vars

(***************************************************************************)
(* Every step of main that is enabled is eventually taken: the process is  *)
(* scheduled, and every call of the service returns or raises.             *)
(***************************************************************************)
FairSpec == Spec /\ WF_vars(Next)

(***************************************************************************)
(* fix_with_gemini, lines 62-73, on its own: the service has returned a    *)
(* response (line 62) and the clean-up computes the text that              *)
(* fix_with_gemini returns.  The response is given by its parts: optional  *)
(* whitespace, an optional opening marker, a body, an optional closing     *)
(* marker, optional whitespace.                                            *)
(***************************************************************************)
Paddings == {<<>>, <<WS>>}

Leads == {<<>>, <<FENCE>>, <<FENCE, TAG>>}

Trails == {<<>>, <<FENCE>>}

ResponseForms ==
    [before : Paddings, lead : Leads,
     body : SeqsUpTo(ResponseTokens, MaxBodyLen),
     trail : Trails, after : Paddings]

response_text(r) == r.before \o r.lead \o r.body \o r.trail \o r.after

CleanInit ==
    /\ pc = "respond"
    /\ response \in ResponseForms
    /\ cleaned = <<>>
    /\ api_key = "key"
    /\ readable = TRUE
    /\ disk = <<>>
    /\ attempt = 1
    /\ verdict = NoVerdict
    /\ json_obj = NoObject
    /\ pending = <<>>
    /\ exitCode = NoExit
    /\ disk0 = disk
    /\ validated = <<>>
    /\ prompt = NoPrompt
    /\ outcome = "none"
    /\ parsed = "none"
    /\ validations = 0
    /\ invalids = 0
    /\ fixCalls = 0
    /\ agentCalls = 0
    /\ reads = 0
    /\ writes = 0
    /\ persisted = 0
    /\ notJson = 0
    /\ pauses = 0
    /\ faults = 0

CleanUp ==
    /\ pc = "respond"
    /\ cleaned' = cleaned_text(response_text(response))
    /\ pc' = "cleaned"
    /\ UNCHANGED <<response, api_key, readable, disk, attempt, verdict,
                   json_obj, pending, exitCode, disk0, validated, prompt,
                   outcome, parsed, validations, invalids, fixCalls,
                   agentCalls, reads, writes, persisted, notJson, pauses,
                   faults>>

CleanNext == CleanUp

CleanSpec == CleanInit /\ [][CleanNext]_vars

(***************************************************************************)
(* Properties of the repair loop.                                          *)
(***************************************************************************)
HasCredential == api_key \notin {NoValue, ""}

Done == {"done_success", "done_failure"}

OnlyUnparsableFixes ==
    /\ HasCredential
    /\ pc \notin {"done_success", "open", "dump"}
    /\ invalids = validations
    /\ notJson = agentCalls
    /\ pauses = 0
    /\ persisted = 0

\* C1: bounded retries.  In a run where no validation returns valid and
\* every repair so far was an agent response that does not parse as JSON,
\* the loop ends in failure with exit status 1 after exactly max_retries
\* validations; it does not run on for ever.
C1_BoundedRetries ==
    <>(~OnlyUnparsableFixes
       \/ (pc = "done_failure" /\ exitCode = 1 /\ validations = max_retries))

C1_Witness ==
    /\ pc = "done_failure"
    /\ OnlyUnparsableFixes
    /\ validations = max_retries
    /\ notJson = max_retries - 1

\* C2: termination in every environment.  Whatever the verdicts and the
\* agent outcomes are, no run validates more than max_retries times, and a
\* run that has the credential reaches DONE_SUCCESS or DONE_FAILURE.
C2_Termination ==
    /\ [](validations <= max_retries)
    /\ <>(~HasCredential \/ pc \in Done)

C2_Witness ==
    /\ pc = "done_success"
    /\ validations = max_retries
    /\ pauses > 0
    /\ notJson > 0
    /\ persisted > 0

ValidAtStart ==
    /\ HasCredential
    /\ readable
    /\ ~HasBad(disk0)
    /\ json_loads(disk0) = [ok |-> TRUE, obj |-> "notebook"]

\* C3: idempotence.  When the file is a well-formed notebook at the first
\* validation, the run goes from CHECKING to DONE_SUCCESS with exactly one
\* validation, calls the agent never and writes the file never.
C3_Idempotence ==
    ValidAtStart =>
        /\ pc \in {"start", "check", "done_success"}
        /\ (pc = "done_success") <=> (validations = 1)
        /\ validations <= 1
        /\ fixCalls = 0
        /\ agentCalls = 0
        /\ writes = 0
        /\ disk = disk0

C3_Witness ==
    /\ ValidAtStart
    /\ pc = "done_success"
    /\ validations = 1
    /\ exitCode = 0

\* C4: non-destructive skip.  A repair whose cleaned response does not parse
\* as JSON does not open the file for writing and leaves the content of the
\* file as it was when the cycle validated it, and the cycle uses up one
\* attempt.
C4_NonDestructiveSkip ==
    [][(pc = "repair" /\ parsed' = "error") =>
          /\ writes' = writes
          /\ disk' = disk
          /\ disk' = validated
          /\ pc' = "check"
          /\ attempt' = attempt + 1]_vars

C4_Witness ==
    /\ parsed = "error"
    /\ pc = "check"
    /\ attempt = 2
    /\ writes = 0
    /\ disk = disk0
    /\ disk # <<>>

\* C5: atomic write.  During the write step, and after a kill or a file
\* system failure in it, the file holds either the complete content it had
\* before the write or the complete new serialization.
C5_AtomicWrite ==
    (pc \in {"dump", "crashed"} \/ (pc = "check" /\ outcome = "write_failed"))
        => (disk = validated \/ disk = json_dump(json_obj))

\* C6: process outcome.  The exit status is 0 exactly when the credential
\* is present and a validation returned valid, and 1 exactly when the
\* credential is absent or max_retries validations all returned invalid; no
\* exception of the agent call, of JSON parsing or of the file write leaves
\* main, and the loop never runs out.
C6_ProcessOutcome ==
    /\ exitCode \in {NoExit, 0, 1}
    /\ pc \notin {"uncaught", "loop_end"}
    /\ (exitCode = 0) <=>
           (HasCredential /\ validations \in 1..max_retries
                /\ invalids < validations)
    /\ (exitCode = 1) <=>
           \/ (pc # "start" /\ ~HasCredential)
           \/ (validations = max_retries /\ invalids = max_retries)

C6_Witness ==
    /\ pc = "done_failure"
    /\ exitCode = 1
    /\ faults > 0
    /\ pauses > faults
    /\ notJson > 0

\* C7: an agent failure is recovered locally.  When the adapter call raises
\* in cycle k, the file stays as it was validated, main sleeps once, the
\* attempt counter advances by one, the process does not exit, and the
\* validation of cycle k + 1 is run.
C7_AgentFailureRecovered ==
    /\ [][(pc = "repair" /\ outcome' = "raised") =>
             /\ disk' = disk
             /\ disk' = validated
             /\ writes' = writes
             /\ pauses' = pauses + 1
             /\ attempt' = attempt + 1
             /\ pc' = "check"
             /\ exitCode' = NoExit]_vars
    /\ \A k \in 1..(max_retries - 1) :
           (pc = "check" /\ outcome = "raised" /\ validations = k)
               ~> (validations = k + 1)

C7_Witness ==
    /\ pc = "repair"
    /\ validations = 2
    /\ agentCalls = 1
    /\ pauses = 1
    /\ notJson = 0
    /\ writes = 0
    /\ disk = disk0

\* C8: a missing credential is fatal at once.  When the credential is unset
\* or empty, the only step of the run is the exit with status 1: nothing is
\* validated, the agent is not called, the file is neither read nor written.
C8_MissingCredentialFatal ==
    api_key \in {NoValue, ""} =>
        /\ pc \in {"start", "no_credential"}
        /\ (pc = "no_credential") <=> (exitCode = 1)
        /\ exitCode \in {NoExit, 1}
        /\ validations = 0
        /\ fixCalls = 0
        /\ agentCalls = 0
        /\ reads = 0
        /\ writes = 0
        /\ disk = disk0

C8_Witness ==
    /\ api_key = ""
    /\ pc = "no_credential"
    /\ exitCode = 1
    /\ disk # <<>>

\* C9: persist whenever the fix is JSON.  A repair whose response parses as
\* JSON goes on to write the file, the completed write leaves the
\* serialization of the parsed value in the file whether or not it is a
\* valid notebook, and the next validation reads exactly that text from the
\* file and judges it.
C9_PersistWheneverJson ==
    /\ [](parsed = "ok" =>
             \/ pc \in {"open", "dump"}
             \/ (pc = "check" /\ outcome = "persisted"
                   /\ disk = json_dump(json_obj)))
    /\ [][(pc = "check" /\ outcome = "persisted") =>
             /\ validated' = json_dump(json_obj)
             /\ verdict'.is_valid <=> (json_obj = "notebook")]_vars

C9_Witness ==
    /\ persisted = 1
    /\ validations = 2
    /\ json_obj = "object"
    /\ pc = "repair"
    /\ validated = <<LB, RB>>
    /\ validated # disk0
    /\ verdict.msg = SCHEMA_MSG

NotJsonAtStart ==
    /\ HasCredential
    /\ readable
    /\ ~HasBad(disk0)
    /\ ~json_loads(disk0).ok

\* C10: a file that is not JSON triggers the repair.  When the file is not
\* JSON at the first validation, the verdict is the Invalid JSON one, the
\* run goes on to the repair, the agent is called exactly once in that
\* cycle, and a fix that is JSON is written to the file before cycle 2.
C10_NonJsonTriggersRepair ==
    (NotJsonAtStart /\ validations = 1) =>
        /\ verdict.msg = DECODE_MSG
        /\ pc \in {"repair", "open", "dump", "check"}
        /\ agentCalls = (IF pc = "repair" THEN 0 ELSE 1)
        /\ (pc = "check" /\ parsed = "ok") => disk = json_dump(json_obj)

\* What cycle 1 does with such a file apart from the wording of the verdict.
C10_RepairWithoutLabel ==
    (NotJsonAtStart /\ validations = 1) =>
        /\ pc \in {"repair", "open", "dump", "check"}
        /\ agentCalls = (IF pc = "repair" THEN 0 ELSE 1)
        /\ (pc = "check" /\ parsed = "ok") => disk = json_dump(json_obj)

\* C11: attempt counter discipline.  The first validation runs with attempt
\* 1; a step that ends a cycle with a written fix, a skipped fix or a failed
\* repair adds exactly one to attempt and goes back to the validation, and
\* attempt changes in no other step; attempt stays within 1..max_retries;
\* the repair is entered only from the validation, on an invalid verdict
\* with attempt < max_retries.
CycleEnds == {"persisted", "not_json", "raised", "write_failed"}

C11_AttemptDiscipline ==
    /\ [](attempt \in 1..max_retries)
    /\ []((pc \in {"start", "check"} /\ validations = 0) => attempt = 1)
    /\ [][attempt' \in {attempt, attempt + 1}]_vars
    /\ [][(outcome' # outcome /\ outcome' \in CycleEnds)
            <=> (attempt' = attempt + 1)]_vars
    /\ [][(outcome' # outcome /\ outcome' \in CycleEnds)
            => pc' = "check"]_vars
    /\ [][(pc' = "repair" /\ pc # "repair")
            => /\ pc = "check"
               /\ ~verdict'.is_valid
               /\ attempt < max_retries
               /\ attempt' = attempt]_vars

C11_Witness ==
    /\ pc = "check"
    /\ attempt = max_retries
    /\ validations = max_retries - 1
    /\ outcome = "persisted"
    /\ notJson >= 1
    /\ pauses >= 1

\* C12: the last cycle never repairs.  An invalid verdict at attempt =
\* max_retries ends the run in DONE_FAILURE in that very step, with no call
\* of fix_with_gemini, no call of the service and no write; a run calls
\* fix_with_gemini at most max_retries - 1 times, and a failed run exactly
\* (number of invalid validations) - 1 times.
C12_LastCycleNeverRepairs ==
    /\ [][(pc = "check" /\ attempt = max_retries /\ ~verdict'.is_valid)
            => /\ pc' = "done_failure"
               /\ fixCalls' = fixCalls
               /\ agentCalls' = agentCalls
               /\ writes' = writes
               /\ disk' = disk]_vars
    /\ [](fixCalls <= max_retries - 1 /\ agentCalls <= fixCalls)
    /\ [](pc = "done_failure"
            => /\ fixCalls = invalids - 1
               /\ attempt = max_retries
               /\ prompt = NoPrompt
               /\ outcome = "none"
               /\ disk = validated)

C12_Witness ==
    /\ pc = "done_failure"
    /\ invalids = max_retries
    /\ fixCalls = max_retries - 1
    /\ agentCalls = max_retries - 1
    /\ writes = max_retries - 1

C14_UnexpectedHandledAlike ==
    /\ [][(pc = "check" /\ verdict'.msg \in {UNEXPECTED_MSG, SCHEMA_MSG})
            => pc' = (IF attempt = max_retries THEN "done_failure"
                      ELSE "repair")]_vars
    /\ [][(pc = "repair" /\ verdict.msg = UNEXPECTED_MSG)
            => /\ fixCalls' = fixCalls + 1
               /\ \/ pc' = "open" /\ attempt' = attempt
                  \/ pc' = "check" /\ attempt' = attempt + 1]_vars
    /\ []((verdict.msg = UNEXPECTED_MSG /\ exitCode # NoExit)
            => /\ pc = "done_failure"
               /\ exitCode = 1
               /\ validations = max_retries)
    /\ (api_key \notin {NoValue, ""} /\ ~readable)
         ~> (pc = "done_failure" /\ validations = max_retries)

C14_Witness ==
    /\ pc = "done_failure"
    /\ verdict.msg = UNEXPECTED_MSG
    /\ readable
    /\ HasBad(disk)
    /\ validations = max_retries
    /\ fixCalls = max_retries - 1
    /\ agentCalls = max_retries - 1

\* C15: strictly sequential cycles with guarded side effects.  Cycle k runs
\* its validation first (the k-th validation, with attempt = k), then at
\* most one call of the service, then at most one write; a step that writes
\* the file comes in a cycle whose verdict was invalid and whose response
\* parsed as JSON; the validation of the next cycle starts only when the
\* cycle before it has ended, with nothing left to write.
C15_SequentialCycles ==
    /\ [](validations \in {attempt - 1, attempt})
    /\ [](fixCalls <= validations /\ agentCalls <= fixCalls
            /\ writes <= agentCalls)
    /\ [][(validations' # validations)
            => /\ pc = "check"
               /\ validations = attempt - 1
               /\ validations' = attempt
               /\ fixCalls = attempt - 1
               /\ pending = <<>>
               /\ (attempt > 1 => outcome \in CycleEnds)]_vars
    /\ [][(agentCalls' # agentCalls)
            => /\ pc = "repair"
               /\ validations = attempt
               /\ ~verdict.is_valid
               /\ prompt = NoPrompt
               /\ agentCalls' = agentCalls + 1
               /\ agentCalls <= attempt - 1
               /\ writes <= attempt - 1]_vars
    /\ [][(writes' # writes)
            => /\ pc = "open"
               /\ validations = attempt
               /\ ~verdict.is_valid
               /\ prompt # NoPrompt
               /\ parsed = "ok"
               /\ writes' = writes + 1
               /\ writes <= attempt - 1]_vars
    /\ [][(disk' # disk)
            => /\ pc \in {"open", "dump"}
               /\ writes' <= attempt
               /\ prompt # NoPrompt
               /\ ~verdict.is_valid
               /\ parsed = "ok"]_vars

C15_Witness ==
    /\ pc = "check"
    /\ outcome = "persisted"
    /\ attempt = 3
    /\ validations = 2
    /\ agentCalls = 2
    /\ writes = 2
    /\ disk = json_dump(json_obj)

\* C17: success is sound.  DONE_SUCCESS is entered only by the validation
\* step, on a verdict that is valid, with no call of the service and no
\* write in that cycle; at DONE_SUCCESS the file holds the very text that
\* the validation read and judged valid, a well-formed notebook.
C17_SuccessIsSound ==
    /\ [][(pc' = "done_success" /\ pc # "done_success")
            => /\ pc = "check"
               /\ validations' = validations + 1
               /\ verdict'.is_valid
               /\ verdict'.msg = VALID_MSG
               /\ validated' = disk
               /\ disk' = disk
               /\ fixCalls' = fixCalls
               /\ agentCalls' = agentCalls
               /\ writes' = writes]_vars
    /\ [](pc = "done_success"
            => /\ verdict.is_valid
               /\ disk = validated
               /\ json_loads(disk).obj = "notebook"
               /\ prompt = NoPrompt
               /\ outcome = "none"
               /\ fixCalls = validations - 1
               /\ exitCode = 0)

C17_Witness ==
    /\ pc = "done_success"
    /\ validations = 3
    /\ writes = 2
    /\ disk # disk0
    /\ disk = json_dump("notebook")
    /\ disk = validated

\* C18: written content is always JSON.  A write that has completed leaves
\* in the file the serialization of the value that json.loads returned;
\* nothing else modifies the file, so at every validation and every repair
\* the file holds its original content or such a serialization; once a
\* cycle has written a fix, the file is JSON at every later validation and
\* no later verdict is "Invalid JSON".
C18_WrittenContentIsJson ==
    /\ (pc = "check" /\ outcome = "persisted")
         => (disk = json_dump(json_obj) /\ json_loads(disk).ok)
    /\ pc \in {"check", "repair"}
         => (disk = disk0 \/ json_loads(disk).ok)
    /\ (persisted > 0 /\ pc \in {"check", "repair"})
         => json_loads(disk).ok
    /\ (persisted > 0 /\ pc = "repair") => verdict.msg # DECODE_MSG

(***************************************************************************)
(* Properties of the clean-up of the response.                             *)
(***************************************************************************)
\* The parts of a response are read as the clean-up can read them: a text
\* with no opening marker does not begin with a fence, a body after the
\* bare fence does not begin with the tag json (the two would be the
\* 7-character marker), a text with no closing marker does not end with a
\* fence.
MarkersAsGiven(r) ==
    /\ (r.lead = <<>> => ~startswith(lstrip(r.body), <<FENCE>>))
    /\ (r.lead = <<FENCE>> => ~startswith(r.body, <<TAG>>))
    /\ (r.trail = <<>> => ~endswith(rstrip(r.body), <<FENCE>>))

\* C16: fence stripping, as the claim states it.  For every response made of
\* optional whitespace, an optional opening marker (fence and json, or the
\* bare fence), a body, an optional closing fence and optional whitespace,
\* fix_with_gemini returns the body without its surrounding whitespace; a
\* response with no markers is returned unchanged apart from the trimming.
C16_FenceStripping ==
    (pc = "cleaned" /\ MarkersAsGiven(response))
        => /\ cleaned = strip(response.body)
           /\ (response.lead = <<>> /\ response.trail = <<>>)
                => cleaned = strip(response_text(response))

\* C16, amended: the same, for every response whose body does not begin with
\* a fence directly after the opening marker made of fence and json; when
\* it does, the clean-up removes that fence too (lines 66-69) and returns
\* the rest of the body without its surrounding whitespace.
FenceAfterTag(r) ==
    r.lead = <<FENCE, TAG>> /\ startswith(r.body, <<FENCE>>)

C16_FenceStrippingOnce ==
    (pc = "cleaned" /\ MarkersAsGiven(response))
        => /\ ~FenceAfterTag(response) => cleaned = strip(response.body)
           /\ FenceAfterTag(response)
                => cleaned = strip(SubSeq(response.body, 2,
                                          Len(response.body)))
           /\ (response.lead = <<>> /\ response.trail = <<>>)
                => cleaned = strip(response_text(response))

C16_Witness ==
    /\ pc = "cleaned"
    /\ response = [before |-> <<WS>>, lead |-> <<FENCE, TAG>>,
                   body |-> <<LB, RB>>, trail |-> <<FENCE>>,
                   after |-> <<WS>>]
    /\ cleaned = <<LB, RB>>

====
